---- MODULE Spec2Model ----
(***************************************************************************)
(* piclang: the curve algebra (wrap, the primitive curves, the combinators *)
(* translate, scale, rotate, concat, repeat, step, reverse, boustro),      *)
(* interpolate, the history stack PicStack and the postfix tree builder    *)
(* stackparse of src/python/piclang.py.                                    *)
(*                                                                         *)
(* Numbers are exact rationals <<n, d>> with d > 0 in lowest terms; the    *)
(* pair <<0, 0>> stands for a real number that is not rational (the sine   *)
(* or cosine of an angle that is not a multiple of a quarter turn).        *)
(* Python values are tagged tuples: <<"num", r>>, <<"tuple", x, y>>,       *)
(* <<"func", name>>, <<"lambda", val>> and one tuple per Curve class.      *)
(* A raised exception is the value <<"error", kind>>.                      *)
(***************************************************************************)
EXTENDS Integers, Sequences, FiniteSets, TLC

VARIABLES
  stack,        \* PicStack._stack
  stackptr,     \* PicStack._stackptr
  op,           \* the PicStack method that ran last: "init", "push" or "pop"
  popped,       \* the list returned by pop(num), if the last call was a pop
  readIdx,      \* the buffer indices that pop(num) read, in order
  ideal,        \* an unbounded LIFO stack fed the same pushes and pops
                \* (emptied, and no longer followed, once a pop underflows)
  idealPopped,  \* what the ideal stack returned for the last pop(num)
  underflowed,  \* some pop was issued with fewer live values than it asked for
  inRing,       \* a _popone found the cursor at 0 and no push has happened since
  ringIdx,      \* the indices among readIdx that were read while in the ring
  expr,         \* stackparse: the token stream
  pos,          \* stackparse: number of tokens consumed
  pc,           \* stackparse / evaluation: control position
  result,       \* stackparse: the returned tree or the raised error
  f,            \* interpolate: the object being sampled
  call,         \* the constructor call that built f: <<token, args>>
  depth,        \* number of combinators applied to build f
  x,            \* interpolate: loop index
  samples       \* interpolate: list of values computed so far

vars == <<stack, stackptr, op, popped, readIdx, ideal, idealPopped, underflowed,
          inRing, ringIdx,
          expr, pos, pc, result, f, call, depth, x, samples>>

stackVars == <<stack, stackptr, op, popped, readIdx, ideal, idealPopped, underflowed,
               inRing, ringIdx>>
parseVars == <<expr, pos, pc, result>>
evalVars  == <<f, call, depth, x, samples>>

(***************************************************************************)
(* Bounds                                                                  *)
(***************************************************************************)
MaxStack  == 9    \* longest buffer explored in the PicStack specification
MaxPop    == 2    \* largest num passed to pop(num) in the PicStack specification
MaxTokens == 3    \* longest token stream given to stackparse
MaxDepth  == 2    \* deepest nesting of combinators that is evaluated
NumPoints == 4    \* the points argument of interpolate

(***************************************************************************)
(* Exact rational arithmetic                                               *)
(***************************************************************************)
Abs(i) == IF i < 0 THEN -i ELSE i

RECURSIVE Gcd(_, _)
Gcd(a, b) == IF b = 0 THEN a ELSE Gcd(b, a % b)

Rat(n, d) ==
  LET s == IF d < 0 THEN -1 ELSE 1
      g == Gcd(Abs(n), Abs(d))
  IN  <<(s * n) \div g, (s * d) \div g>>

Irr == <<0, 0>>
IsRat(r) == r[2] > 0

RAdd(a, b) == IF IsRat(a) /\ IsRat(b) THEN Rat(a[1] * b[2] + b[1] * a[2], a[2] * b[2]) ELSE Irr
RSub(a, b) == IF IsRat(a) /\ IsRat(b) THEN Rat(a[1] * b[2] - b[1] * a[2], a[2] * b[2]) ELSE Irr
RMul(a, b) == IF IsRat(a) /\ IsRat(b) THEN Rat(a[1] * b[1], a[2] * b[2]) ELSE Irr
RLt(a, b)  == a[1] * b[2] < b[1] * a[2]
RFloor(a)  == Rat(a[1] \div a[2], 1)
RMod1(a)   == Rat(a[1] % a[2], a[2])
RInt(i)    == <<i, 1>>

(***************************************************************************)
(* Python values                                                           *)
(***************************************************************************)
Num(r)     == <<"num", r>>
Tup(a, b)  == <<"tuple", a, b>>
Error(k)   == <<"error", k>>
IsError(v) == v[1] = "error"
IsNum(v)   == v[1] = "num"
IsPair(v)  == v[1] = "tuple"

CurveClasses == {"FunctionCurve", "translate", "scale", "rotate", "concat",
                 "reverse", "repeat", "step"}
IsCurve(o)   == o[1] \in CurveClasses
Callable(o)  == IsCurve(o) \/ o[1] \in {"func", "lambda"}

FunctionCurve(func) == <<"FunctionCurve", func>>
circle == FunctionCurve(<<"func", "circle">>)
line   == FunctionCurve(<<"func", "line">>)
constant(val) == FunctionCurve(<<"lambda", val>>)

(***************************************************************************)
(* Curve algebra                                                           *)
(***************************************************************************)

\* Curve.wrap(o)
wrap(o) ==
  IF IsCurve(o) THEN o
  ELSE IF Callable(o) THEN FunctionCurve(o)
  ELSE IF IsNum(o) THEN constant(Tup(o[2], o[2]))
  ELSE IF IsPair(o) THEN constant(o)
  ELSE Error("TypeError")

\* circle(t) = (sin(2*pi*t), cos(2*pi*t)): exact at quarter turns.
CircleAt(t) ==
  LET m == RMod1(t)
  IN  IF m = <<0, 1>> THEN Tup(RInt(0), RInt(1))
      ELSE IF m = <<1, 4>> THEN Tup(RInt(1), RInt(0))
      ELSE IF m = <<1, 2>> THEN Tup(RInt(0), RInt(-1))
      ELSE IF m = <<3, 4>> THEN Tup(RInt(-1), RInt(0))
      ELSE Tup(Irr, Irr)

\* Calling a plain Python function object: circle's and line's bodies, the
\* lambda made by constant(val), and a caller-supplied lambda t: (t, 1 - t).
CallFunc(func, t) ==
  IF func[1] = "lambda" THEN func[2]
  ELSE IF func[2] = "circle" THEN CircleAt(t)
  ELSE IF func[2] = "line" THEN Tup(t, t)
  ELSE Tup(t, RSub(RInt(1), t))

\* translate.invoke, scale.invoke, rotate.invoke on two points.
invoke_mixed(cls, pa, pb) ==
  LET ax == pa[2]  ay == pa[3]  bx == pb[2]  by == pb[3]
  IN  IF cls = "translate" THEN Tup(RAdd(ax, bx), RMul(ay, by))
      ELSE IF cls = "scale" THEN Tup(RMul(ax, bx), RMul(ay, by))
      ELSE Tup(RSub(RMul(ax, bx), RMul(ay, by)), RAdd(RMul(ay, bx), RMul(ax, by)))
invoke(cls, pa, pb) ==
  LET ax == pa[2]  ay == pa[3]  bx == pb[2]  by == pb[3]
  IN  IF cls = "translate" THEN Tup(RAdd(ax, bx), RAdd(ay, by))
      ELSE IF cls = "scale" THEN Tup(RMul(ax, bx), RMul(ay, by))
      ELSE Tup(RSub(RMul(ax, bx), RMul(ay, by)), RAdd(RMul(ay, bx), RMul(ax, by)))

\* reverse: the time passed to func.
ReverseTime(t) == RSub(RInt(1), t)

\* concat: which operand runs, and at what time.
ConcatFirst(t) == RLt(t, <<1, 2>>)
ConcatTime(t) == IF ConcatFirst(t) THEN RMul(t, RInt(2)) ELSE RSub(RMul(t, RInt(2)), RInt(1))

\* repeat: (t * times) % 1
RepeatTime(t, times) == RMod1(RMul(t, times))

\* step: math.floor(t * steps) / steps, a float or a ZeroDivisionError
StepTime_trunc(t, steps) ==
  IF RFloor(steps)[1] = 0 THEN Error("ZeroDivisionError")
  ELSE LET k == RFloor(RMul(t, steps)) IN Num(Rat(k[1], RFloor(steps)[1]))
StepTime(t, steps) ==
  IF steps[1] = 0 THEN Error("ZeroDivisionError")
  ELSE LET k == RFloor(RMul(t, steps)) IN Num(Rat(k[1] * steps[2], steps[1]))

\* o(t) for any Python object o.
RECURSIVE Call(_, _)
Call(o, t) ==
  IF ~Callable(o) THEN Error("TypeError")
  ELSE IF o[1] \in {"func", "lambda"} THEN CallFunc(o, t)
  ELSE IF o[1] = "FunctionCurve" THEN Call(o[2], t)
  ELSE IF o[1] \in {"translate", "scale", "rotate"} THEN
    LET pa == Call(o[2], t)
        pb == Call(o[3], t)
    IN  IF IsError(pa) THEN pa
        ELSE IF IsError(pb) THEN pb
        ELSE IF ~IsPair(pa) \/ ~IsPair(pb) THEN Error("TypeError")
        ELSE invoke(o[1], pa, pb)
  ELSE IF o[1] = "reverse" THEN Call(o[2], ReverseTime(t))
  ELSE IF o[1] = "concat" THEN
    IF ConcatFirst(t) THEN Call(o[2], ConcatTime(t)) ELSE Call(o[3], ConcatTime(t))
  ELSE IF o[1] = "repeat" THEN
    IF ~IsNum(o[3]) THEN Error("TypeError") ELSE Call(o[2], RepeatTime(t, o[3][2]))
  ELSE \* step
    IF ~IsNum(o[3]) THEN Error("TypeError")
    ELSE LET u == StepTime(t, o[3][2])
         IN  IF IsError(u) THEN u ELSE Call(o[2], u[2])

\* The constructors.
TwoArgCurve(cls, a, b) ==
  LET wa == wrap(a)
      wb == wrap(b)
  IN  IF IsError(wa) THEN wa ELSE IF IsError(wb) THEN wb ELSE <<cls, wa, wb>>

translate(a, b) == TwoArgCurve("translate", a, b)
scale(a, b)     == TwoArgCurve("scale", a, b)
rotate(a, b)    == TwoArgCurve("rotate", a, b)
concat(a, b)    == TwoArgCurve("concat", a, b)
reverse(func)       == <<"reverse", func>>
repeat(func, times) == <<"repeat", func, times>>
step(func, steps)   == <<"step", func, steps>>

\* times / 2.0
Halve(times) == IF IsNum(times) THEN Num(RMul(times[2], <<1, 2>>)) ELSE Error("TypeError")

boustro_whole(func, times) ==
  IF ~IsNum(times) THEN Error("TypeError")
  ELSE repeat(concat(func, reverse(func)), times)
boustro(func, times) ==
  LET h == Halve(times)
  IN  IF IsError(h) THEN h ELSE repeat(concat(func, reverse(func)), h)

(***************************************************************************)
(* PicStack                                                                *)
(***************************************************************************)
HistoryDepth == 8

Min(a, b) == IF a < b THEN a ELSE b

\* Python list indexing lst[i]: negative indices count from the end.
ListGet(lst, i) ==
  IF i >= 0 /\ i < Len(lst) THEN lst[i + 1]
  ELSE IF i < 0 /\ -i <= Len(lst) THEN lst[Len(lst) + i + 1]
  ELSE Error("IndexError")

\* Python list item assignment lst[i] = elt (i inside the list).
ListSet(lst, i, elt) ==
  LET j == IF i >= 0 THEN i + 1 ELSE Len(lst) + i + 1
  IN  [lst EXCEPT ![j] = elt]

\* The cursor after one _popone on a non-empty buffer of length n.
WrapPtr_last(p, n) == IF p - 1 < 0 THEN n - 1 ELSE p - 1
WrapPtr_off(p, n) == IF p - 1 < 0 THEN Min(n, HistoryDepth) ELSE p - 1
WrapPtr(p, n) == IF p - 1 < 0 THEN Min(n, HistoryDepth) - 1 ELSE p - 1

\* _popone: the new cursor, the value returned, the index read and whether
\* the cursor wrapped.
popone(s, p) ==
  IF Len(s) = 0
  THEN [ptr |-> p, val |-> Num(RInt(0)), idx |-> <<>>, wrap |-> <<>>]
  ELSE LET q == WrapPtr(p, Len(s))
       IN  [ptr |-> q, val |-> ListGet(s, q), idx |-> <<q>>, wrap |-> <<p - 1 < 0>>]

\* pop(num): _popone num times, results in the order popped.
RECURSIVE pop(_, _, _)
pop(s, p, num) ==
  IF num = 0
  THEN [ptr |-> p, vals |-> <<>>, idxs |-> <<>>, wraps |-> <<>>]
  ELSE LET one  == popone(s, p)
           rest == pop(s, one.ptr, num - 1)
       IN  [ptr |-> rest.ptr, vals |-> <<one.val>> \o rest.vals,
            idxs |-> one.idx \o rest.idxs, wraps |-> one.wrap \o rest.wraps]

\* push(elt): the new buffer and cursor.
push_append(s, p, elt) == [stk |-> Append(s, elt), ptr |-> p + 1]
push(s, p, elt) ==
  IF p < Len(s)
  THEN [stk |-> ListSet(s, p, elt), ptr |-> p + 1]
  ELSE [stk |-> Append(s, elt), ptr |-> p + 1]

\* Popping num values from the ideal stack (most recent first).
RECURSIVE TakeTop(_, _)
TakeTop(s, num) ==
  IF num = 0 \/ Len(s) = 0 THEN <<>>
  ELSE <<s[Len(s)]>> \o TakeTop(SubSeq(s, 1, Len(s) - 1), num - 1)

\* The indices of idxs read at or after a wrap (or after an earlier one, inR).
RECURSIVE RingReads(_, _, _)
RingReads(idxs, wraps, inR) ==
  IF idxs = <<>> THEN <<>>
  ELSE LET r == inR \/ Head(wraps)
       IN  (IF r THEN <<Head(idxs)>> ELSE <<>>) \o RingReads(Tail(idxs), Tail(wraps), r)

AnyTrue(bs) == \E k \in 1..Len(bs) : bs[k]

DropTop(s, num) == SubSeq(s, 1, IF Len(s) > num THEN Len(s) - num ELSE 0)

Values == {Num(RInt(1)), Num(RInt(2))}

ParseIdle == expr = <<>> /\ pos = 0 /\ pc = "idle" /\ result = <<"none">>
EvalIdle  == f = <<"none">> /\ call = <<"none">> /\ depth = 0 /\ x = 0 /\ samples = <<>>

StackInit ==
  /\ stack = <<>> /\ stackptr = 0 /\ op = "init"
  /\ popped = <<>> /\ readIdx = <<>>
  /\ ideal = <<>> /\ idealPopped = <<>> /\ underflowed = FALSE
  /\ inRing = FALSE /\ ringIdx = <<>>

InitStack == StackInit /\ ParseIdle /\ EvalIdle

Push ==
  \E elt \in Values :
    /\ stackptr < Len(stack) \/ Len(stack) < MaxStack
    /\ LET r == push(stack, stackptr, elt)
       IN  stack' = r.stk /\ stackptr' = r.ptr
    /\ op' = "push"
    /\ ideal' = IF underflowed THEN <<>> ELSE Append(ideal, elt)
    /\ inRing' = FALSE
    /\ popped' = <<>> /\ readIdx' = <<>> /\ ringIdx' = <<>> /\ idealPopped' = <<>>
    /\ UNCHANGED underflowed
    /\ UNCHANGED <<parseVars, evalVars>>

Pop ==
  \E num \in 1..MaxPop :
    /\ LET r == pop(stack, stackptr, num)
       IN  /\ stackptr' = r.ptr /\ popped' = r.vals /\ readIdx' = r.idxs
           /\ ringIdx' = RingReads(r.idxs, r.wraps, inRing)
           /\ inRing' = (inRing \/ AnyTrue(r.wraps))
    /\ op' = "pop"
    /\ underflowed' = (underflowed \/ Len(ideal) < num)
    /\ idealPopped' = IF underflowed' THEN <<>> ELSE TakeTop(ideal, num)
    /\ ideal' = IF underflowed' THEN <<>> ELSE DropTop(ideal, num)
    /\ UNCHANGED stack
    /\ UNCHANGED <<parseVars, evalVars>>

NextStack == Push \/ Pop

SpecStack == InitStack /\ [][NextStack]_vars

(***************************************************************************)
(* stackparse                                                              *)
(***************************************************************************)
Class(name)    == <<"class", name>>
Function(name) == <<"function", name>>

Constructors == {Class("translate"), Class("scale"), Class("rotate"), Class("concat"),
                 Class("repeat"), Class("step"), Class("reverse"), Function("boustro")}

\* The literals offered as tokens: a number and a pair.
Literals == {Num(RInt(2)), Tup(RInt(0), RInt(1))}

Tokens == {circle, line} \cup Literals \cup Constructors

\* inspect.getargspec(...)[0]: the argument names of __init__ (classes) or of
\* the function itself.
ArgSpec(token) ==
  IF token = Function("boustro") THEN <<"func", "times">>
  ELSE IF token[2] \in {"translate", "scale", "rotate", "concat"} THEN <<"self", "a", "b">>
  ELSE IF token[2] = "reverse" THEN <<"self", "func">>
  ELSE IF token[2] = "repeat" THEN <<"self", "func", "times">>
  ELSE <<"self", "func", "steps">>

argcount(token) ==
  IF token[1] = "class" THEN Len(ArgSpec(token)) - 1 ELSE Len(ArgSpec(token))

\* token(*args)
Apply(token, args) ==
  IF token = Function("boustro") THEN boustro(args[1], args[2])
  ELSE IF token[2] = "translate" THEN translate(args[1], args[2])
  ELSE IF token[2] = "scale" THEN scale(args[1], args[2])
  ELSE IF token[2] = "rotate" THEN rotate(args[1], args[2])
  ELSE IF token[2] = "concat" THEN concat(args[1], args[2])
  ELSE IF token[2] = "repeat" THEN repeat(args[1], args[2])
  ELSE IF token[2] = "step" THEN step(args[1], args[2])
  ELSE reverse(args[1])

RECURSIVE SeqsUpTo(_, _)
SeqsUpTo(S, n) ==
  IF n = 0 THEN {<<>>}
  ELSE LET shorter == SeqsUpTo(S, n - 1)
       IN  shorter \cup {Append(q, e) : q \in {r \in shorter : Len(r) = n - 1}, e \in S}

InitParse ==
  /\ StackInit /\ EvalIdle
  /\ expr \in SeqsUpTo(Tokens, MaxTokens)
  /\ pos = 0 /\ pc = "loop" /\ result = <<"none">>

token == expr[pos + 1]

\* stack.push(token) for circle, line and the literals.
PushToken ==
  /\ pc = "loop" /\ pos < Len(expr)
  /\ token \in {circle, line} \cup Literals
  /\ LET w == push(stack, stackptr, token)
     IN  stack' = w.stk /\ stackptr' = w.ptr
  /\ op' = "push" /\ inRing' = FALSE
  /\ ideal' = IF underflowed THEN <<>> ELSE Append(ideal, token)
  /\ pos' = pos + 1
  /\ popped' = <<>> /\ readIdx' = <<>> /\ ringIdx' = <<>> /\ idealPopped' = <<>>
  /\ UNCHANGED underflowed
  /\ UNCHANGED <<expr, pc, result, evalVars>>

\* stack.push(token(*stack.pop(argcount))) for a constructor.
ApplyToken ==
  /\ pc = "loop" /\ pos < Len(expr)
  /\ token \in Constructors
  /\ LET n    == argcount(token)
         r    == pop(stack, stackptr, n)
         node == Apply(token, r.vals)
         w    == push(stack, r.ptr, node)
         u    == underflowed \/ Len(ideal) < n
     IN  /\ popped' = r.vals /\ readIdx' = r.idxs
         /\ ringIdx' = RingReads(r.idxs, r.wraps, inRing)
         /\ underflowed' = u
         /\ idealPopped' = IF u THEN <<>> ELSE TakeTop(ideal, n)
         /\ IF IsError(node)
            THEN /\ pc' = "raised" /\ result' = node
                 /\ stack' = stack /\ stackptr' = r.ptr /\ op' = "pop"
                 /\ inRing' = (inRing \/ AnyTrue(r.wraps))
                 /\ ideal' = IF u THEN <<>> ELSE DropTop(ideal, n)
                 /\ pos' = pos
            ELSE /\ pc' = pc /\ result' = result
                 /\ stack' = w.stk /\ stackptr' = w.ptr /\ op' = "push"
                 /\ inRing' = FALSE
                 /\ ideal' = IF u THEN <<>>
                             ELSE Append(DropTop(ideal, n), Apply(token, TakeTop(ideal, n)))
                 /\ pos' = pos + 1
  /\ UNCHANGED <<expr, evalVars>>

\* return stack.pop()[0]
Return ==
  /\ pc = "loop" /\ pos = Len(expr)
  /\ LET r == pop(stack, stackptr, 1)
         u == underflowed \/ Len(ideal) < 1
     IN  /\ stackptr' = r.ptr /\ popped' = r.vals /\ readIdx' = r.idxs
         /\ ringIdx' = RingReads(r.idxs, r.wraps, inRing)
         /\ inRing' = (inRing \/ AnyTrue(r.wraps))
         /\ underflowed' = u
         /\ idealPopped' = IF u THEN <<>> ELSE TakeTop(ideal, 1)
         /\ ideal' = IF u THEN <<>> ELSE DropTop(ideal, 1)
         /\ result' = r.vals[1]
  /\ op' = "pop" /\ pc' = "done"
  /\ UNCHANGED <<stack, expr, pos, evalVars>>

NextParse == PushToken \/ ApplyToken \/ Return

SpecParse == InitParse /\ [][NextParse]_vars

\* The number of values on an ideal stack after the tokens, or -1 when some
\* constructor finds fewer operands than its arity.
RECURSIVE Height(_, _)
Height(tokens, h) ==
  IF tokens = <<>> THEN h
  ELSE IF Head(tokens) \in Constructors
       THEN IF h < argcount(Head(tokens)) THEN -1
            ELSE Height(Tail(tokens), h - argcount(Head(tokens)) + 1)
       ELSE Height(Tail(tokens), h + 1)

WellFormed(tokens) == Height(tokens, 0) = 1

\* The tree an ideal LIFO stack builds: literals and primitives pushed
\* unchanged, each constructor applied to its operands, most recent first.
RECURSIVE IdealTree(_, _)
IdealTree(tokens, st) ==
  IF tokens = <<>> THEN st[Len(st)]
  ELSE IF Head(tokens) \in Constructors
       THEN LET n == argcount(Head(tokens))
            IN  IdealTree(Tail(tokens),
                          Append(DropTop(st, n), Apply(Head(tokens), TakeTop(st, n))))
       ELSE IdealTree(Tail(tokens), Append(st, Head(tokens)))

(***************************************************************************)
(* Properties of stackparse (checked under SpecParse)                      *)
(***************************************************************************)

\* C2: on a well-formed stream stackparse does not raise, and the value it
\* returns is the tree of the ideal stack: constructors applied to their
\* operands in popped order, so that [x, y, op] gives op(y, x).
C2_WellFormedGivesTree ==
  WellFormed(expr) =>
    /\ pc # "raised"
    /\ pc = "done" => (result = IdealTree(expr, <<>>) /\ ~IsError(result))

\* C3: stackparse raises on no stream of valid tokens, underfull or not.
C3_NeverRaises == pc # "raised"

(***************************************************************************)
(* Building a curve with the combinators and sampling it with interpolate  *)
(***************************************************************************)

\* A caller-supplied function, as accepted by Curve.wrap.
userFunc == <<"func", "user">>

\* The objects a formula starts from: the primitive curves, a constant curve,
\* and the raw values wrap coerces or rejects.
Leaves == {circle, line, constant(Tup(RInt(2), RInt(3))),
           Num(RInt(2)), Tup(RInt(0), RInt(1)), userFunc, <<"str", "a">>}

\* The second operands offered to translate, scale, rotate and concat.
Operands == {circle, line, Num(RInt(2)), Tup(RInt(0), RInt(1))}

\* The numeric parameters offered to repeat, step and boustro.
RepeatTimes  == {Num(RInt(0)), Num(RInt(-1)), Num(RInt(2)), Num(<<5, 2>>)}
StepSteps    == {Num(RInt(0)), Num(RInt(-1)), Num(<<1, 2>>), Num(<<3, 2>>), Num(RInt(2))}
BoustroTimes == {Num(RInt(0)), Num(RInt(-1)), Num(RInt(2)), Num(RInt(4))}

\* interpolate(f, points): [f(x / float(points)) for x in range(points)], cut
\* short at the first call that raises.
RECURSIVE interpolate(_, _, _)
interpolate(fn, points, from) ==
  IF from >= points THEN <<>>
  ELSE LET v == Call(fn, Rat(from, points))
       IN  IF IsError(v) THEN <<v>> ELSE <<v>> \o interpolate(fn, points, from + 1)

InitEval ==
  /\ StackInit /\ ParseIdle
  /\ f \in Leaves
  /\ call = <<"none">> /\ depth = 0 /\ x = 0 /\ samples = <<>>

\* f = token(*args)
Build(tok, args) ==
  /\ pc = "idle" /\ depth < MaxDepth
  /\ LET node == Apply(tok, args)
     IN  /\ f' = node
         /\ pc' = IF IsError(node) THEN "raised" ELSE "idle"
  /\ call' = <<tok, args>>
  /\ depth' = depth + 1
  /\ UNCHANGED <<x, samples, stackVars, expr, pos, result>>

Translate == \E o \in Operands : Build(Class("translate"), <<f, o>>)
Scale     == \E o \in Operands : Build(Class("scale"), <<o, f>>)
Rotate    == \E o \in Operands : Build(Class("rotate"), <<o, f>>)
Concat    == \E o \in Operands : Build(Class("concat"), <<f, o>>) \/ Build(Class("concat"), <<o, f>>)
Repeat    == \E n \in RepeatTimes : Build(Class("repeat"), <<f, n>>)
Step      == \E n \in StepSteps : Build(Class("step"), <<f, n>>)
Reverse   == Build(Class("reverse"), <<f>>)
Boustro   == \E n \in BoustroTimes : Build(Function("boustro"), <<f, n>>)

Interpolate ==
  /\ pc = "idle"
  /\ samples' = interpolate(f, NumPoints, 0)
  /\ x' = Len(samples')
  /\ pc' = IF samples' # <<>> /\ IsError(samples'[Len(samples')]) THEN "raised" ELSE "sampled"
  /\ UNCHANGED <<f, call, depth, stackVars, expr, pos, result>>

NextEval ==
  \/ Translate \/ Scale \/ Rotate \/ Concat
  \/ Repeat \/ Step \/ Reverse \/ Boustro
  \/ Interpolate

SpecEval == InitEval /\ [][NextEval]_vars

\* The time of the k-th sample.
SampleTime(k) == Rat(k - 1, NumPoints)

(***************************************************************************)
(* Properties of the curve algebra (checked under SpecEval)                *)
(***************************************************************************)
Sampled == pc \in {"sampled", "raised"} /\ call # <<"none">> /\ ~IsError(f)

\* A number, a 2-tuple or a raw callable: what wrap coerces.
Coercible(o) == IsNum(o) \/ IsPair(o) \/ (Callable(o) /\ ~IsCurve(o))

\* The arguments of a constructor call with its curve operands passed
\* through wrap first.
WrapOperands(tok, args) ==
  IF tok[2] \in {"translate", "scale", "rotate", "concat"}
  THEN <<wrap(args[1]), wrap(args[2])>>
  ELSE IF tok[2] = "reverse" THEN <<wrap(args[1])>>
  ELSE <<wrap(args[1]), args[2]>>

CurveOperands(tok, args) ==
  IF tok[2] \in {"translate", "scale", "rotate", "concat"} THEN {args[1], args[2]}
  ELSE {args[1]}

\* C5: a combinator built with a number, a 2-tuple or a raw callable in a
\* curve-operand position samples exactly as the same combinator built with
\* that operand passed through wrap first.
C5_CoercionAtEveryCombinator ==
  (Sampled /\ \E o \in CurveOperands(call[1], call[2]) : Coercible(o)) =>
    samples = interpolate(Apply(call[1], WrapOperands(call[1], call[2])), NumPoints, 0)

\* A tree whose curve operands are all Curves and whose numeric parameters
\* are all numbers; zeroStep says whether step may have steps = 0.
RECURSIVE CurveTree(_, _)
CurveTree(o, zeroStep) ==
  IF o[1] = "FunctionCurve" THEN TRUE
  ELSE IF o[1] \in {"translate", "scale", "rotate", "concat"}
       THEN CurveTree(o[2], zeroStep) /\ CurveTree(o[3], zeroStep)
  ELSE IF o[1] = "reverse" THEN IsCurve(o[2]) /\ CurveTree(o[2], zeroStep)
  ELSE IF o[1] = "repeat" THEN IsCurve(o[2]) /\ IsNum(o[3]) /\ CurveTree(o[2], zeroStep)
  ELSE IF o[1] = "step"
       THEN /\ IsCurve(o[2]) /\ IsNum(o[3]) /\ CurveTree(o[2], zeroStep)
            /\ (zeroStep \/ o[3][2][1] # 0)
  ELSE FALSE

NoFailure == pc # "raised" /\ \A k \in 1..Len(samples) : IsPair(samples[k])

RatPoint(v) == IsPair(v) /\ IsRat(v[2]) /\ IsRat(v[3])

\* C7: scale(a, translate(b, c)) samples as translate(scale(a, b), scale(a, c)),
\* and rotate(a, translate(b, c)) as translate(rotate(a, b), rotate(a, c)),
\* wherever a, b and c take rational points.
C7_DistributesOverTranslate ==
  (Sampled /\ f[1] \in {"scale", "rotate"} /\ f[3][1] = "translate") =>
    LET a == f[2]
        b == f[3][2]
        c == f[3][3]
        rhs == translate(TwoArgCurve(f[1], a, b), TwoArgCurve(f[1], a, c))
    IN  \A k \in 1..Len(samples) :
          (/\ RatPoint(Call(a, SampleTime(k)))
           /\ RatPoint(Call(b, SampleTime(k)))
           /\ RatPoint(Call(c, SampleTime(k))))
          => samples[k] = Call(rhs, SampleTime(k))

C7_Witness ==
  /\ pc = "sampled" /\ f[1] = "rotate" /\ f[3][1] = "translate"
  /\ f[2] = line /\ f[3][2] = constant(Tup(RInt(2), RInt(3))) /\ f[3][3] = line
  /\ RatPoint(samples[2]) /\ samples[2][3] # RInt(0)

EvenTimes(n) == IsNum(n) /\ n[2][2] = 1 /\ n[2][1] >= 2 /\ n[2][1] % 2 = 0

\* C8: for a curve c and an even integer times >= 2, boustro(c, times)(t) is
\* c(frac) when floor(t * times) is even and c(1 - frac) when it is odd, frac
\* being the fractional part of t * times; at a seam t = j / times it is c(1)
\* for odd j and c(0) for even j.
C8_BoustroSeams ==
  (Sampled /\ call[1] = Function("boustro") /\ IsCurve(call[2][1]) /\ EvenTimes(call[2][2])) =>
    LET c == call[2][1]
        times == call[2][2][2]
    IN  \A k \in 1..Len(samples) :
          LET s == RMul(SampleTime(k), times)
              j == RFloor(s)
              frac == RSub(s, j)
          IN  /\ samples[k] = IF j[1] % 2 = 0 THEN Call(c, frac)
                              ELSE Call(c, RSub(RInt(1), frac))
              /\ frac = RInt(0) =>
                   samples[k] = Call(c, IF j[1] % 2 = 0 THEN RInt(0) ELSE RInt(1))

C8_Witness ==
  /\ pc = "sampled" /\ call = <<Function("boustro"), <<line, Num(RInt(4))>>>>
  /\ \E k \in 1..Len(samples) :
       /\ RFloor(RMul(SampleTime(k), RInt(4)))[1] % 2 = 1
       /\ samples[k] # Call(line, RMod1(RMul(SampleTime(k), RInt(4))))

Range(q) == {q[k] : k \in 1..Len(q)}

\* C9: for steps >= 1, step(c, steps) takes at most floor(steps) distinct
\* values over the samples, and equals c(t) at every sample time t that is a
\* multiple of 1 / steps.
C9_StepDistinctValues ==
  (Sampled /\ pc = "sampled" /\ call[1] = Class("step") /\ IsCurve(call[2][1])
     /\ IsNum(call[2][2]) /\ ~RLt(call[2][2][2], RInt(1))) =>
    LET c == call[2][1]
        steps == call[2][2][2]
    IN  /\ Cardinality(Range(samples)) <= RFloor(steps)[1]
        /\ \A k \in 1..Len(samples) :
             RMod1(RMul(SampleTime(k), steps)) = RInt(0) =>
               samples[k] = Call(c, SampleTime(k))

(***************************************************************************)
(* Properties of PicStack (checked under SpecStack)                        *)
(***************************************************************************)

\* C1: as long as no pop has underflowed, every pop(num) returns exactly what
\* an ideal unbounded LIFO stack fed the same pushes and pops returns.
C1_LifoUnderNoUnderflow ==
  (op = "pop" /\ ~underflowed) => (popped = idealPopped /\ stackptr = Len(ideal))

C1_Witness ==
  /\ op = "pop" /\ ~underflowed
  /\ Len(popped) = 2 /\ popped[1] # popped[2]
  /\ Len(stack) > stackptr + 2

\* C4 (as stated): every index read at or after a wrap of the cursor lies in
\* the last min(len, 8) slots of the buffer, and pop returns no error.
C4_RingIsLastSlots ==
  /\ \A k \in 1..Len(ringIdx) :
       /\ ringIdx[k] >= Len(stack) - Min(Len(stack), HistoryDepth)
       /\ ringIdx[k] < Len(stack)
  /\ \A k \in 1..Len(popped) : ~IsError(popped[k])

\* C4 (amended): every index read at or after a wrap of the cursor lies in
\* the first min(len, 8) slots of the buffer (indices 0 .. min(len, 8) - 1),
\* and pop returns no error.
C4_RingIsFirstSlots ==
  /\ \A k \in 1..Len(ringIdx) :
       ringIdx[k] >= 0 /\ ringIdx[k] < Min(Len(stack), HistoryDepth)
  /\ \A k \in 1..Len(popped) : ~IsError(popped[k])

C4_Witness ==
  /\ op = "pop" /\ Len(stack) > HistoryDepth
  /\ ringIdx # <<>> /\ ringIdx[1] = HistoryDepth - 1

\* C10: 0 <= cursor <= buffer length always; every index a pop reads is
\* inside the buffer; a pop leaves the buffer unchanged; a push overwrites one
\* slot or appends exactly at the end; the buffer never gets shorter.
C10_CursorWithinBuffer ==
  /\ [](/\ 0 <= stackptr /\ stackptr <= Len(stack)
        /\ \A k \in 1..Len(readIdx) : readIdx[k] >= 0 /\ readIdx[k] < Len(stack)
        /\ \A k \in 1..Len(popped) : ~IsError(popped[k]))
  /\ [][/\ Len(stack') >= Len(stack)
        /\ op' = "pop" => stack' = stack
        /\ op' = "push" =>
             \/ /\ stackptr < Len(stack) /\ Len(stack') = Len(stack)
                /\ \A k \in 1..Len(stack) : k # stackptr + 1 => stack'[k] = stack[k]
             \/ /\ stackptr = Len(stack) /\ Len(stack') = Len(stack) + 1
                /\ SubSeq(stack', 1, Len(stack)) = stack]_vars

C10_Witness ==
  /\ op = "push" /\ underflowed
  /\ stackptr < Len(stack) /\ stackptr > 1

====
